---- MODULE Spec2Model ----
(***************************************************************************)
(* nativescript-canvas-interface: the bridge between the native app        *)
(* (class NativescriptCanvasInterface) and the web-view                    *)
(* (class NSCanvasInterface), modelled as a state machine.                 *)
(*                                                                         *)
(* A JavaScript value is named by a string (an atom); its properties are   *)
(* read with FieldData / FieldStrImage.  A string that travels as an image *)
(* is a sequence of tokens, so that split(",") is computed, not assumed.   *)
(***************************************************************************)
EXTENDS Integers, Sequences, FiniteSets

\* ------------------------------------------------------------- bounds
MaxCalls == 2
MaxInst == 2

CallIds == 1..MaxCalls

\* ------------------------------------------------------ JavaScript values
\* Values a canvas request handler may return or resolve its promise with.
RetVals == {"undefined", "0", "{data:7}", "{count:1}"}

\* JavaScript truthiness of a value
Truthy(v) == v \notin {"undefined", "null", "0", "false", "''"}

\* v.data for a value v
FieldData(v) == IF v = "{data:7}" THEN "7" ELSE "undefined"

\* an absent string
NoStr == << >>

\* v._strImage for a handler value v (none of RetVals has the property)
FieldStrImage(v) == NoStr

\* A value as it is seen across the bridge: its name and the two properties
\* the native side reads from a response.
Wrap(v) == [prim |-> v, data |-> FieldData(v), strImage |-> FieldStrImage(v)]

Undefined == Wrap("undefined")

\* --------------------------------------------------------- argument lists
\* An element of an argument list: a scalar, or an array of scalars
Scalar(a) == [arr |-> FALSE, items |-> << a >>]
ArrayOf(s) == [arr |-> TRUE, items |-> s]

\* list.concat(v): the elements of v when v is an array, v itself otherwise
Concat(list, v) ==
    list \o (IF v.arr THEN [i \in 1..Len(v.items) |-> Scalar(v.items[i])] ELSE << v >>)

\* The k-th of the arguments a function is applied to (undefined: none)
Positional(list, k) == IF k <= Len(list) THEN list[k] ELSE Scalar("undefined")

\* The args array an app passes to setImage
ArgLists == {<< >>, << "x" >>, << "x", "y" >>}

\* ------------------------------------------------------------ image strings
Pixels == {"red", "green"}

Comma == [t |-> ",", v |-> "-", px |-> "-"]
Hdr(mime) == [t |-> "data:", v |-> mime, px |-> "-"]
B64(px, fmt) == [t |-> "b64", v |-> fmt, px |-> px]

\* ImageSource.toBase64String(format): the payload of image px in a format
toBase64String(px, fmt) == << B64(px, fmt) >>

\* image-source fromBase64(str): the image of a payload; null when the
\* argument is no payload
fromBase64(str) ==
    IF Len(str) = 1 /\ str[1].t = "b64" THEN str[1].px ELSE "null"

\* image-source fromFile(path): the image stored at a path (null: no image)
fromFile(path) ==
    CASE path = "a.jpg" -> "red"
      [] path = "b.png" -> "green"
      [] OTHER -> "null"

\* canvas.toDataURL(mime) of a canvas whose content is px
toDataURL(px, mime) ==
    << Hdr(mime), Comma, B64(px, IF mime = "image/png" THEN "png" ELSE "jpeg") >>

\* Positions of the commas of a string
CommaPositions(s) == {i \in 1..Len(s) : s[i] = Comma}

\* Mutant of SplitAt1: split(",")[0], the piece before the first comma
SplitAt0(s) ==
    LET cs == CommaPositions(s) IN
    IF cs = {} THEN s
    ELSE SubSeq(s, 1, (CHOOSE i \in cs : \A j \in cs : i <= j) - 1)

\* base64ImageStr.split(",")[1]: the piece between the first comma and the
\* second one (or the end); absent when the string has no comma
SplitAt1(s) ==
    LET cs == CommaPositions(s) IN
    IF cs = {} THEN NoStr
    ELSE LET first == CHOOSE i \in cs : \A j \in cs : i <= j
             rest == {j \in cs : j > first}
             stop == IF rest = {} THEN Len(s) + 1
                     ELSE CHOOSE i \in rest : \A j \in rest : i <= j
         IN  SubSeq(s, first + 1, stop - 1)

\* NativescriptCanvasInterface._getImageSourceFromBase64Str
getImageSourceFromBase64Str(base64ImageStr) == fromBase64(SplitAt1(base64ImageStr))

\* NativescriptCanvasInterface._getBase64StrFromImageSource
getBase64StrFromImageSource(imageSource, format) ==
    IF format = "jpeg" \/ format = "jpg"
    THEN << Hdr("image/jpeg"), Comma >> \o toBase64String(imageSource, "jpeg")
    ELSE << Hdr("image/png"), Comma >> \o toBase64String(imageSource, "png")

\* ------------------------------------------------------ setImage arguments
\* The image argument of setImage: an Image view (with or without an image
\* resource), an ImageSource, a string, or anything else.
ImageArg(kind, px, path) == [kind |-> kind, px |-> px, path |-> path]

InvalidImageArgs ==
    { ImageArg("number", "null", ""),
      ImageArg("null", "null", ""),
      ImageArg("string", "null", ""),
      ImageArg("string", "null", " "),
      ImageArg("view", "null", "") }

ValidImageArgs ==
    { ImageArg("string", "null", "a.jpg") }

ImageArgs == InvalidImageArgs \cup ValidImageArgs

\* image.trim().length > 0
NonBlank(path) == path \notin {"", " "}

\* image.substring(image.lastIndexOf('.') + 1)
Extension(path) ==
    CASE path = "a.jpg" -> "jpg"
      [] path = "b.png" -> "png"
      [] OTHER -> path

\* NativescriptCanvasInterface._resolveImageSourceAndFormat
resolveImageSourceAndFormat(image, format) ==
    LET isPath == image.kind = "string" /\ NonBlank(image.path)
        fromStr == IF isPath THEN fromFile(image.path) ELSE "undefined"
        fmt == IF isPath /\ ~Truthy(format) THEN Extension(image.path) ELSE format
        src == CASE image.kind = "view" -> image.px
                 [] image.kind = "source" -> image.px
                 [] OTHER -> fromStr
    IN  [imageSource |-> src, format |-> fmt]

\* Mutant of NoImageSource: only an undefined image source is refused
NoImageSourceUndefinedOnly(src) == src = "undefined"

\* !imageSource
NoImageSource(src) == src \in {"undefined", "null"}

InvalidImageSource == << "Please provide Image, ImageSource object or Valid Image Path" >>

\* ------------------------------------------------------------- the web-view
CanvasIds == {"A", "B"}
Elements == {"a1", "a2", "b1"}

\* canvas.id of a canvas element
IdOf(el) == IF el = "b1" THEN "B" ELSE "A"

Names == {"paint", "draw"}
Fns == {"f", "g"}

\* canvasReqHandlers = {} of a new instance
EmptyHandlers == [n \in Names |-> "none"]

\* The handler map the page assigns to canvasReqHandlers of the instance it
\* makes for a canvas element
MapOf(el) ==
    CASE el = "a1" -> [n \in Names |-> IF n = "paint" THEN "f" ELSE "g"]
      [] el = "a2" -> [n \in Names |-> IF n = "paint" THEN "g" ELSE "none"]
      [] OTHER -> [n \in Names |-> IF n = "paint" THEN "g" ELSE "f"]

\* What handler fn leaves on the canvas of a createImage request
PaintOf(fn) == IF fn = "f" THEN "red" ELSE "green"

NoInstanceError(canvasId) == << "No canvas interface instance found for canvas", canvasId >>
NotRegisteredError(functionName, canvasId) ==
    << "Function is not registered with canvas", functionName, canvasId >>
Boom == << "boom" >>
TransportFailure == << "transport error" >>
NoError == << >>

\* The format argument of a call ("undefined": left out)
Formats == {"undefined"}

VARIABLES
    host,         \* per call: the promise setImage / createImage returned
    wire,         \* per call: the webViewInterface.callJSFunction call
    req,          \* per call: the _setImage / _createImage run in the web-view
    instances,    \* the NSCanvasInterface objects constructed so far
    instanceMap,  \* NSCanvasInterface._canvasInterfaceInstanceMap
    canvasPx,     \* the content of each canvas element
    codec         \* one application of the image codec to an image and a format

vars == << host, wire, req, instances, instanceMap, canvasPx, codec >>

NoResult == [defined |-> FALSE, image |-> "null", data |-> "undefined"]
NoImageArg == ImageArg("none", "null", "")

HostIdle ==
    [op |-> "none", canvasId |-> "", image |-> NoImageArg, args |-> << >>,
     format |-> "undefined", state |-> "none", result |-> NoResult, error |-> NoError]

WireIdle ==
    [state |-> "none", fn |-> "", canvasId |-> "", fname |-> "",
     str |-> NoStr, format |-> "", args |-> << >>]

ReqIdle ==
    [entry |-> "none", phase |-> "none", promise |-> "pending",
     value |-> Undefined, error |-> NoError,
     lookInst |-> 0, invoked |-> 0, invInst |-> 0, invFn |-> "none", invCanvas |-> "none",
     invImage |-> "null", invArgs |-> << >>, ret |-> "none", retVal |-> "undefined",
     hError |-> NoError, unhandled |-> FALSE, exported |-> NoStr, expCanvas |-> "none"]

\* The bridge before any call and any construction
BridgeInit ==
    /\ host = [c \in CallIds |-> HostIdle]
    /\ wire = [c \in CallIds |-> WireIdle]
    /\ req = [c \in CallIds |-> ReqIdle]
    /\ instances = << >>
    /\ instanceMap = [id \in CanvasIds |-> 0]
    /\ canvasPx = [el \in Elements |-> "blank"]

\* The codec at rest: nothing encoded, exported or decoded
CodecIdle ==
    [img |-> "null", format |-> "undefined", encoded |-> NoStr, exported |-> NoStr,
     decodeOf |-> "none", decodeStr |-> NoStr, payload |-> NoStr,
     absent |-> FALSE, decoded |-> "null"]

Init ==
    /\ BridgeInit
    /\ codec = CodecIdle

\* ------------------------------------------------------------ native side
\* The next call of the app: calls are numbered in the order they are made
NextCall(c) ==
    /\ host[c].op = "none"
    /\ \A d \in CallIds : d < c => host[d].op # "none"

\* webViewInterface.callJSFunction(functionName, args, success, error) as
\* _callJSFunction issues it: the promise is pending until a callback runs.
\* The argument list is canvasId, fname, then str or format, then args.
callJSFunction(c, h, functionName, canvasId, fname, str, format, args) ==
    /\ host' = [host EXCEPT ![c] = [h EXCEPT !.state = "pending"]]
    /\ wire' = [wire EXCEPT ![c] =
            [state |-> "request", fn |-> functionName, canvasId |-> canvasId,
             fname |-> fname, str |-> str, format |-> format, args |-> args]]

\* format: string = 'png', the default of a parameter left out
DefaultFormat(format) == IF format = "undefined" THEN "png" ELSE format

\* NativescriptCanvasInterface.createImage
CreateImage(c, canvasId, functionName, format) ==
    /\ NextCall(c)
    /\ LET fmt == DefaultFormat(format)
           h == [HostIdle EXCEPT !.op = "createImage", !.canvasId = canvasId,
                                 !.format = format]
       IN  callJSFunction(c, h, "NSCanvasInterface._createImage",
                          canvasId, functionName, NoStr, fmt,
                          << Scalar("undefined") >>)
    /\ UNCHANGED << codec, req, instances, instanceMap, canvasPx >>

\* NativescriptCanvasInterface.setImage
SetImage(c, canvasId, functionName, image, args, format) ==
    /\ NextCall(c)
    /\ LET fmt == DefaultFormat(format)
           r == resolveImageSourceAndFormat(image, fmt)
           h == [HostIdle EXCEPT !.op = "setImage", !.canvasId = canvasId,
                                 !.image = image, !.args = args, !.format = format]
       IN  IF NoImageSource(r.imageSource)
           THEN /\ host' = [host EXCEPT ![c] =
                        [h EXCEPT !.state = "rejected", !.error = InvalidImageSource]]
                /\ UNCHANGED wire
           ELSE callJSFunction(c, h, "NSCanvasInterface._setImage", canvasId,
                    functionName,
                    getBase64StrFromImageSource(r.imageSource, r.format), "",
                    Concat(<< >>, ArrayOf(args)))
    /\ UNCHANGED << codec, req, instances, instanceMap, canvasPx >>

\* The success callback of _callJSFunction
SuccessResult(response) ==
    IF Truthy(response.prim)
    THEN [defined |-> TRUE,
          image |-> IF response.strImage # NoStr
                    THEN getImageSourceFromBase64Str(response.strImage)
                    ELSE "null",
          data |-> IF Truthy(response.data) THEN response.data ELSE "null"]
    ELSE NoResult

\* Mutant of ErrorResult: the error is wrapped before the promise is rejected
ErrorResultWrapped(error) == << "Error" >> \o error

\* The error callback of _callJSFunction
ErrorResult(error) == error

\* --------------------------------------------------------------- web-view
\* Mutant of NewNSCanvasInterface: an identity that has an instance keeps it
NewNSCanvasInterfaceKeepFirst(el) ==
    /\ Len(instances) < MaxInst
    /\ instances' = Append(instances, [canvas |-> el, handlers |-> EmptyHandlers])
    /\ instanceMap' = [instanceMap EXCEPT ![IdOf(el)] =
                            IF @ = 0 THEN Len(instances) + 1 ELSE @]
    /\ UNCHANGED << codec, host, wire, req, canvasPx >>

\* new NSCanvasInterface(canvas)
NewNSCanvasInterface(el) ==
    /\ Len(instances) < MaxInst
    /\ instances' = Append(instances, [canvas |-> el, handlers |-> EmptyHandlers])
    /\ instanceMap' = [instanceMap EXCEPT ![IdOf(el)] = Len(instances) + 1]
    /\ UNCHANGED << codec, host, wire, req, canvasPx >>

\* oCanvasInterface.canvasReqHandlers = m, the registration of the handlers
\* of an instance
RegisterHandlers(i, m) ==
    /\ instances[i].handlers = EmptyHandlers
    /\ instances' = [instances EXCEPT ![i].handlers = m]
    /\ UNCHANGED << codec, host, wire, req, instanceMap, canvasPx >>

\* Mutant of getCanvasInstanceById: the instance constructed last, whatever
\* its surface identity
getCanvasInstanceLatest(canvasId) == Len(instances)

\* NSCanvasInterface._getCanvasInstanceById (0: undefined)
getCanvasInstanceById(canvasId) == instanceMap[canvasId]

\* Mutant of HandlerOf: a name the instance does not have is looked up in
\* the first instance
HandlerOfShared(i, functionName) ==
    IF instances[i].handlers[functionName] = "none"
    THEN instances[1].handlers[functionName]
    ELSE instances[i].handlers[functionName]

\* oNSCanvasInterface.canvasReqHandlers[functionName]
HandlerOf(i, functionName) == instances[i].handlers[functionName]

\* _callCanvasReqHandler up to the invocation: what it throws, or the
\* instance and the handler it found
LookupHandler(canvasId, functionName) ==
    LET i == getCanvasInstanceById(canvasId) IN
    IF i = 0
    THEN [throws |-> TRUE, error |-> NoInstanceError(canvasId),
          inst |-> 0, fn |-> "none"]
    ELSE IF HandlerOf(i, functionName) = "none"
    THEN [throws |-> TRUE, error |-> NotRegisteredError(functionName, canvasId),
          inst |-> i, fn |-> "none"]
    ELSE [throws |-> FALSE, error |-> NoError,
          inst |-> i, fn |-> HandlerOf(i, functionName)]

\* What a handler does when it is invoked: it returns a value, returns a
\* promise (settled later), or throws
Outcomes ==
    [kind : {"value"}, val : RetVals]
        \cup {[kind |-> "promise", val |-> "undefined"],
              [kind |-> "throw", val |-> "undefined"]}

\* The value the promise made of a returned non-thenable resolves with:
\* if (!retnValue) Promise.resolve() else Promise.resolve(retnValue)
NormalizeReturn(retnValue) == IF ~Truthy(retnValue) THEN "undefined" ELSE retnValue

\* The canvas contents after a handler has drawn: a setImage handler draws
\* the image it was passed, a createImage handler its own picture
Drawn(px, entry, el, fn, image) ==
    [px EXCEPT ![el] = IF entry = "_setImage" THEN image ELSE PaintOf(fn)]

\* Mutant of ThenSetImage: the callback returns without resolving
ThenSetImageNoResolve(r, retnValue) == [r EXCEPT !.phase = "settled"]

\* _setImage: retnPromise.then(function(retnValue) { resolve(retnValue) })
ThenSetImage(r, retnValue) ==
    [r EXCEPT !.promise = "resolved", !.value = Wrap(retnValue), !.phase = "settled"]

\* imgFormat === 'png' ? 'image/png' : 'image/jpeg'
MimeOf(imgFormat) == IF imgFormat = "png" THEN "image/png" ELSE "image/jpeg"

\* Mutant of ThenCreateImage: the image is what the canvas showed when the
\* handler returned, not what it shows when the handler's promise resolves
ThenCreateImageStale(r, canvasId, imgFormat, data, px) ==
    LET el == instances[getCanvasInstanceById(canvasId)].canvas
        strImage == toDataURL(PaintOf(r.invFn), MimeOf(imgFormat))
    IN  [r EXCEPT !.promise = "resolved",
                  !.value = [prim |-> "object", data |-> data, strImage |-> strImage],
                  !.phase = "settled", !.exported = strImage, !.expCanvas = el]

\* _createImage: retnPromise.then(function(data) { ... resolve({_strImage, data}) })
ThenCreateImage(r, canvasId, imgFormat, data, px) ==
    LET el == instances[getCanvasInstanceById(canvasId)].canvas
        strImage == toDataURL(px[el], MimeOf(imgFormat))
    IN  [r EXCEPT !.promise = "resolved",
                  !.value = [prim |-> "object", data |-> data, strImage |-> strImage],
                  !.phase = "settled", !.exported = strImage, !.expCanvas = el]

\* The then-callback of the entry point of request c
Then(c, r, v, px) ==
    IF r.entry = "_setImage"
    THEN ThenSetImage(r, v)
    ELSE ThenCreateImage(r, wire[c].canvasId, wire[c].format, v, px)

\* A rejected promise nobody handles: retnPromise.then has no rejection
\* callback, so the promise of the entry point is never settled
Unhandled(r, e) == [r EXCEPT !.phase = "hung", !.hError = e, !.unhandled = TRUE]

\* reject(e) in the catch of the entry point
Reject(r, e) == [r EXCEPT !.promise = "rejected", !.error = e, !.phase = "settled"]

\* The arguments a handler is applied to after the canvas, the context and
\* (for _setImage) the image: the fourth parameter of the entry point,
\* args, concatenated to the list
HandlerArgs(positional) == Concat(<< >>, Positional(positional, 1))

\* The try block of an entry point: _callCanvasReqHandler with the handler
\* behaving as o, and the then-callback when the promise is already resolved
CallCanvasReqHandler(c, r, image, o) ==
    LET look == LookupHandler(wire[c].canvasId, wire[c].fname) IN
    IF look.throws
    THEN /\ req' = [req EXCEPT ![c] = Reject([r EXCEPT !.lookInst = look.inst], look.error)]
         /\ UNCHANGED canvasPx
    ELSE LET el == instances[look.inst].canvas
             px == Drawn(canvasPx, r.entry, el, look.fn, image)
             r1 == [r EXCEPT !.lookInst = look.inst,
                             !.invoked = @ + 1, !.invInst = look.inst,
                             !.invFn = look.fn, !.invCanvas = el,
                             !.invImage = image,
                             !.invArgs = HandlerArgs(wire[c].args),
                             !.ret = o.kind, !.retVal = o.val]
         IN  /\ canvasPx' = px
             /\ req' = [req EXCEPT ![c] =
                    CASE o.kind = "value" -> Then(c, r1, NormalizeReturn(o.val), px)
                      [] o.kind = "promise" -> [r1 EXCEPT !.phase = "handler"]
                      [] OTHER -> Unhandled(r1, Boom)]

\* The HTML image an <img> loads from a data URI
LoadedImage(src) == fromBase64(SplitAt1(src))

\* Mutant of SetImageEntry: the surface and the handler are looked up when
\* the request arrives, before the image has loaded
SetImageEntryEager(c) ==
    /\ wire[c].state = "request"
    /\ wire[c].fn = "NSCanvasInterface._setImage"
    /\ wire' = [wire EXCEPT ![c].state = "called"]
    /\ LET look == LookupHandler(wire[c].canvasId, wire[c].fname)
           r == [ReqIdle EXCEPT !.entry = "_setImage", !.phase = "loading"]
       IN  req' = [req EXCEPT ![c] =
                    IF look.throws
                    THEN Reject([r EXCEPT !.lookInst = look.inst], look.error)
                    ELSE r]
    /\ UNCHANGED << codec, host, instances, instanceMap, canvasPx >>

\* NSCanvasInterface._setImage, called by the transport with the request
SetImageEntry(c) ==
    /\ wire[c].state = "request"
    /\ wire[c].fn = "NSCanvasInterface._setImage"
    /\ wire' = [wire EXCEPT ![c].state = "called"]
    /\ req' = [req EXCEPT ![c] = [ReqIdle EXCEPT !.entry = "_setImage", !.phase = "loading"]]
    /\ UNCHANGED << codec, host, instances, instanceMap, canvasPx >>

\* image.onload of a _setImage request
ImageOnload(c, o) ==
    /\ req[c].phase = "loading"
    /\ CallCanvasReqHandler(c, req[c], LoadedImage(wire[c].str), o)
    /\ UNCHANGED << codec, host, wire, instances, instanceMap >>

\* The image of a _setImage request fails to load: no onload, and the
\* code sets no onerror
ImageLoadFails(c) ==
    /\ req[c].phase = "loading"
    /\ req' = [req EXCEPT ![c].phase = "loadfailed"]
    /\ UNCHANGED << codec, host, wire, instances, instanceMap, canvasPx >>

\* NSCanvasInterface._createImage, called by the transport with the request
CreateImageEntry(c, o) ==
    /\ wire[c].state = "request"
    /\ wire[c].fn = "NSCanvasInterface._createImage"
    /\ wire' = [wire EXCEPT ![c].state = "called"]
    /\ CallCanvasReqHandler(c, [ReqIdle EXCEPT !.entry = "_createImage"], "null", o)
    /\ UNCHANGED << codec, host, instances, instanceMap >>

\* Mutant of HandlerResolves: a request whose instance has been replaced
\* meanwhile is failed
HandlerResolvesUnlessReplaced(c, v) ==
    /\ req[c].phase = "handler"
    /\ req' = [req EXCEPT ![c] =
            IF req[c].invInst = getCanvasInstanceById(wire[c].canvasId)
            THEN Then(c, [req[c] EXCEPT !.retVal = v], v, canvasPx)
            ELSE Reject([req[c] EXCEPT !.retVal = v], << "instance replaced" >>)]
    /\ UNCHANGED << codec, host, wire, instances, instanceMap, canvasPx >>

\* The promise a handler returned resolves with v
HandlerResolves(c, v) ==
    /\ req[c].phase = "handler"
    /\ req' = [req EXCEPT ![c] = Then(c, [req[c] EXCEPT !.retVal = v], v, canvasPx)]
    /\ UNCHANGED << codec, host, wire, instances, instanceMap, canvasPx >>

\* The promise a handler returned rejects
HandlerRejects(c) ==
    /\ req[c].phase = "handler"
    /\ req' = [req EXCEPT ![c] = Unhandled(req[c], Boom)]
    /\ UNCHANGED << codec, host, wire, instances, instanceMap, canvasPx >>

\* ---------------------------------------------------------- the transport
\* resolve(result) in the success callback of _callJSFunction
Resolve(h, result) == [h EXCEPT !.state = "resolved", !.result = result]

\* reject(error) in the error callback of _callJSFunction
RejectHost(h, error) == [h EXCEPT !.state = "rejected", !.error = error]

\* The transport delivers the response of call c: the success callback
OnSuccess(c) ==
    /\ wire[c].state = "called"
    /\ req[c].promise = "resolved"
    /\ wire' = [wire EXCEPT ![c].state = "done"]
    /\ host' = [host EXCEPT ![c] = Resolve(host[c], SuccessResult(req[c].value))]
    /\ UNCHANGED << codec, req, instances, instanceMap, canvasPx >>

\* Mutant of OnError: a rejected request is issued again
OnErrorRetry(c) ==
    /\ wire[c].state = "called"
    /\ req[c].promise = "rejected"
    /\ wire' = [wire EXCEPT ![c].state = "request"]
    /\ req' = [req EXCEPT ![c] = ReqIdle]
    /\ UNCHANGED << codec, host, instances, instanceMap, canvasPx >>

\* The transport relays the rejection of call c: the error callback
OnError(c) ==
    /\ wire[c].state = "called"
    /\ req[c].promise = "rejected"
    /\ wire' = [wire EXCEPT ![c].state = "done"]
    /\ host' = [host EXCEPT ![c] = RejectHost(host[c], ErrorResult(req[c].error))]
    /\ UNCHANGED << codec, req, instances, instanceMap, canvasPx >>

\* The transport fails to deliver the request of call c: the error callback
TransportFails(c) ==
    /\ wire[c].state = "request"
    /\ wire' = [wire EXCEPT ![c].state = "done"]
    /\ host' = [host EXCEPT ![c] = RejectHost(host[c], ErrorResult(TransportFailure))]
    /\ UNCHANGED << codec, req, instances, instanceMap, canvasPx >>

\* ----------------------------------------------------------------- inputs
\* The first call ranges over every input.  The later calls are there to run
\* concurrently with it: createImage calls for surface "A" and handler
\* "paint", whose handler returns a promise that resolves with {count:1}.
FirstVals == {"undefined", "0", "{data:7}"}
IdsOf(c) == IF c = 1 THEN CanvasIds ELSE {"A"}
NamesOf(c) == IF c = 1 THEN Names ELSE {"paint"}
SetImageCalls == {1}
\* Images that are no image are passed by the proxy of surface "A", for
\* handler "paint"
ImageArgsOf(id, n) == IF id = "A" /\ n = "paint" THEN ImageArgs ELSE ValidImageArgs
\* Extra arguments are given to the calls of handler "paint" of surface "A"
ArgListsOf(img, id, n) ==
    IF img \in ValidImageArgs /\ id = "A" /\ n = "paint" THEN ArgLists ELSE {<< >>}
\* The page makes one instance per canvas element; element "a2" is the
\* canvas that replaces "a1" under the same id
Constructed == {instances[i].canvas : i \in 1..Len(instances)}
Constructible ==
    {el \in Elements \ Constructed : el = "a2" => "a1" \in Constructed}
OutcomesOf(c) ==
    IF c = 1
    THEN {o \in Outcomes : o.kind = "value" => o.val \in FirstVals}
    ELSE {[kind |-> "promise", val |-> "undefined"]}
RetValsOf(c) == IF c = 1 THEN FirstVals ELSE {"{count:1}"}

Next ==
    \/ \E c \in CallIds : \E id \in IdsOf(c), n \in NamesOf(c), f \in Formats :
            CreateImage(c, id, n, f)
    \/ \E c \in SetImageCalls : \E id \in IdsOf(c), n \in NamesOf(c), f \in Formats :
            \E img \in ImageArgsOf(id, n) : \E a \in ArgListsOf(img, id, n) :
                SetImage(c, id, n, img, a, f)
    \/ \E el \in Constructible : NewNSCanvasInterface(el)
    \/ \E i \in 1..Len(instances) : RegisterHandlers(i, MapOf(instances[i].canvas))
    \/ \E c \in CallIds : SetImageEntry(c)
    \/ \E c \in CallIds : \E o \in OutcomesOf(c) : ImageOnload(c, o)
    \/ \E c \in CallIds : ImageLoadFails(c)
    \/ \E c \in CallIds : \E o \in OutcomesOf(c) : CreateImageEntry(c, o)
    \/ \E c \in CallIds : \E v \in RetValsOf(c) : HandlerResolves(c, v)
    \/ \E c \in CallIds : HandlerRejects(c)
    \/ \E c \in CallIds : OnSuccess(c)
    \/ \E c \in CallIds : OnError(c)
    \/ \E c \in CallIds : TransportFails(c)

Spec == Init /\ [][Next]_vars

\* The bridge when the events a dispatched request waits for do come: the
\* image of a _setImage request fires load (unless it failed to load), and
\* the promise a handler returned resolves (unless it rejected).
FairSpec ==
    /\ Spec
    /\ \A c \in CallIds :
          /\ WF_vars(\E o \in OutcomesOf(c) : ImageOnload(c, o))
          /\ WF_vars(\E v \in RetValsOf(c) : HandlerResolves(c, v))

\* ---------------------------------------------------------- the image codec
\* The encoding and decoding functions of the bridge applied to one image
\* and one value of the format argument.
CodecFormats == {"undefined", "png", "jpeg", "jpg", "gif"}

\* Strings with no comma, as a response may carry them in _strImage: a bare
\* payload, and a header that runs into its payload
ForeignStrings(img) ==
    { toBase64String(img, "png"),
      << Hdr("image/png") >> \o toBase64String(img, "png") }

CodecInit ==
    /\ BridgeInit
    /\ \E img \in Pixels, f \in CodecFormats :
          codec = [CodecIdle EXCEPT !.img = img, !.format = f]

\* setImage(name, imageSource, args, format) up to the encoding of the image
Encode ==
    /\ codec.encoded = NoStr
    /\ LET r == resolveImageSourceAndFormat(ImageArg("source", codec.img, ""),
                                            DefaultFormat(codec.format))
       IN  codec' = [codec EXCEPT !.encoded =
                        getBase64StrFromImageSource(r.imageSource, r.format)]
    /\ UNCHANGED << host, wire, req, instances, instanceMap, canvasPx >>

\* createImage(name, args, format): the export of a canvas showing the image
Export ==
    /\ codec.exported = NoStr
    /\ codec' = [codec EXCEPT !.exported =
                    toDataURL(codec.img, MimeOf(DefaultFormat(codec.format)))]
    /\ UNCHANGED << host, wire, req, instances, instanceMap, canvasPx >>

\* The strings of a kind that can be decoded now
DecodeSources(src) ==
    CASE src = "encoded" -> {codec.encoded} \ {NoStr}
      [] src = "exported" -> {codec.exported} \ {NoStr}
      [] OTHER -> ForeignStrings(codec.img)

\* What _getImageSourceFromBase64Str gives for a string.  With no comma in
\* the string split(",")[1] is undefined, and what fromBase64 does with
\* undefined is up to the platform: no image, or an exception.
DecodeOutcomes(s) ==
    IF CommaPositions(s) = {} THEN {"null", "throws"}
    ELSE {getImageSourceFromBase64Str(s)}

\* _getImageSourceFromBase64Str applied to a string of kind src
Decode(src) ==
    /\ codec.decodeOf = "none"
    /\ \E s \in DecodeSources(src) : \E out \in DecodeOutcomes(s) :
          codec' = [codec EXCEPT !.decodeOf = src, !.decodeStr = s,
                                 !.payload = SplitAt1(s),
                                 !.absent = (CommaPositions(s) = {}),
                                 !.decoded = out]
    /\ UNCHANGED << host, wire, req, instances, instanceMap, canvasPx >>

CodecNext ==
    \/ Encode
    \/ Export
    \/ \E src \in {"encoded", "exported", "foreign"} : Decode(src)

CodecSpec == CodecInit /\ [][CodecNext]_vars

\* ================================================================= claims
IsSetImage(c) == host[c].op = "setImage"
IsCreateImage(c) == host[c].op = "createImage"

\* Request c has invoked its handler and the handler's value is known: the
\* value it returned, or the value its promise resolved with
HandlerValueKnown(c) ==
    /\ req[c].invoked = 1
    /\ \/ req[c].ret = "value"
       \/ req[c].ret = "promise" /\ req[c].phase = "settled"

\* The response {data: v}
DataResponse(v) == [prim |-> "object", data |-> v, strImage |-> NoStr]

\* response.data ?? null
NullIfAbsent(v) == IF v \in {"undefined", "null"} THEN "null" ELSE v

\* C1: for a setImage call whose handler gives a non-null value v, the
\* dispatch promise of _setImage resolves with {data: v}, and the host
\* promise resolves with a result whose data is v itself.
C1_SetImageDataIsHandlerValue ==
    \A c \in CallIds :
        (IsSetImage(c) /\ HandlerValueKnown(c)
            /\ req[c].retVal \notin {"undefined", "null"})
        => /\ req[c].promise = "resolved" => req[c].value = DataResponse(req[c].retVal)
           /\ host[c].state = "resolved" =>
                  host[c].result.defined /\ host[c].result.data = req[c].retVal

\* C2: a setImage call whose handler returns nothing resolves with an object
\* whose data is null, never with undefined.
C2_SetImageNothingGivesNullData ==
    \A c \in CallIds :
        (IsSetImage(c) /\ req[c].invoked = 1 /\ req[c].ret = "value"
            /\ req[c].retVal = "undefined" /\ host[c].state = "resolved")
        => host[c].result.defined /\ host[c].result.data = "null"

\* C3: a createImage call resolves with {image, data}: image is the decoding
\* of the string exported from the canvas by that request, data the value of
\* the handler (null when that value is undefined or null).
C3_CreateImageResult ==
    \A c \in CallIds :
        (IsCreateImage(c) /\ host[c].state = "resolved")
        => /\ host[c].result.defined
           /\ req[c].exported # NoStr
           /\ host[c].result.image = req[c].exported[Len(req[c].exported)].px
           /\ host[c].result.data = NullIfAbsent(req[c].retVal)

\* C4: when the promise a handler returned rejects with e, the dispatch
\* promise rejects with e (and the host promise, once the transport has
\* relayed it); the request does not stay pending.
C4_HandlerRejectionRejectsDispatch ==
    \A c \in CallIds :
        (req[c].ret = "promise" /\ req[c].hError # NoError)
        => /\ req[c].promise = "rejected"
           /\ req[c].error = req[c].hError
           /\ host[c].state = "rejected" => host[c].error = req[c].hError

\* C5: when a handler throws, the error is caught and the dispatch promise is
\* rejected with it; no rejection is left unhandled in the web-view.
C5_HandlerThrowRejectsDispatch ==
    \A c \in CallIds :
        req[c].ret = "throw"
        => /\ req[c].promise = "rejected"
           /\ req[c].error = req[c].hError
           /\ ~req[c].unhandled

\* The step in which request c looks its surface and its handler up: the
\* call of _createImage, or the load of the image of _setImage
LookupStep(c) ==
    \/ /\ wire[c].state = "request"
       /\ wire[c].fn = "NSCanvasInterface._createImage"
       /\ wire'[c].state = "called"
    \/ /\ req[c].phase = "loading"
       /\ req'[c].phase \notin {"loading", "loadfailed"}

\* Nothing was invoked and nothing was drawn in this step
NoInvocation == 
    /\ \A d \in CallIds : req'[d].invoked = req[d].invoked
    /\ canvasPx' = canvasPx

C7_InvalidImageIsRejectedLocally ==
    \A c \in CallIds :
        (IsSetImage(c) /\ host[c].image \in InvalidImageArgs)
        => /\ host[c].state = "rejected"
           /\ host[c].error = InvalidImageSource
           /\ wire[c].state = "none"
           /\ req[c].entry = "none"

C7_Witness ==
    \E c \in CallIds :
        /\ IsSetImage(c) /\ host[c].image = ImageArg("view", "null", "")
        /\ host[c].state = "rejected" /\ host[c].error = InvalidImageSource

\* The transport invokes the error callback of call c in this step
ErrorCallbackStep(c) ==
    /\ wire[c].state # "done" /\ wire'[c].state = "done"
    /\ wire[c].state = "request" \/ req[c].promise = "rejected"

\* The value the transport passes to the error callback of call c
ErrorPassed(c) == IF wire[c].state = "request" THEN TransportFailure ELSE req[c].error

\* C8: when the transport invokes the error callback of a call with e, the
\* host promise of the call rejects with exactly e, and it never resolves.
C8_TransportErrorRejectsUnchanged ==
    [][\A c \in CallIds :
          /\ ErrorCallbackStep(c)
                => host'[c].state = "rejected" /\ host'[c].error = ErrorPassed(c)
          /\ host[c].state = "rejected" => host'[c] = host[c]]_vars

\* A setImage call was rejected with the error of its request, and a
\* createImage call with an error of the transport itself
C8_Witness ==
    \E c, d \in CallIds :
        /\ IsSetImage(c) /\ host[c].state = "rejected"
        /\ req[c].promise = "rejected" /\ host[c].error = req[c].error
        /\ IsCreateImage(d) /\ host[d].state = "rejected"
        /\ host[d].error = TransportFailure

\* Call d is in flight: issued, and no callback has run
InFlight(d) == wire[d].state \in {"request", "called"}

\* C9: of two createImage calls in flight together, each resolves with the
\* data of its own handler invocation, in whatever order the handlers finish
\* and the responses are delivered.
C9_ConcurrentCallsGetOwnData ==
    [][\A c, d \in CallIds :
          (c # d /\ IsCreateImage(c) /\ IsCreateImage(d) /\ InFlight(d)
              /\ host[c].state = "pending" /\ host'[c].state = "resolved")
          => host'[c].result.data = NullIfAbsent(req[c].retVal)]_vars

\* The instance constructed last for a surface identity (0: none)
LatestInstance(id) ==
    LET S == {i \in 1..Len(instances) : IdOf(instances[i].canvas) = id}
    IN  IF S = {} THEN 0 ELSE CHOOSE i \in S : \A j \in S : j <= i

\* C10: after a second instance is constructed for a surface identity, every
\* lookup of that identity uses the handler map of the instance constructed
\* last only: a name only an older instance has is reported as not registered.
C10_LastInstanceWins ==
    [][\A c \in CallIds :
          LET id == wire[c].canvasId
              name == wire[c].fname
              i == LatestInstance(id)
          IN  (LookupStep(c) /\ i # 0)
              => /\ req'[c].lookInst = i
                 /\ instances[i].handlers[name] = "none"
                       => /\ req'[c].promise = "rejected"
                          /\ req'[c].error = NotRegisteredError(name, id)
                          /\ NoInvocation
                 /\ instances[i].handlers[name] # "none"
                       => /\ req'[c].invoked = 1
                          /\ req'[c].invFn = instances[i].handlers[name]
                          /\ req'[c].invCanvas = instances[i].canvas]_vars

\* A request for "draw", which only the first instance of surface "A" has,
\* was looked up in the second instance and reported as not registered
C10_Witness ==
    \E c \in CallIds :
        /\ Len(instances) = 2
        /\ IdOf(instances[1].canvas) = "A" /\ IdOf(instances[2].canvas) = "A"
        /\ instances[1].handlers["draw"] # "none"
        /\ wire[c].canvasId = "A" /\ wire[c].fname = "draw"
        /\ req[c].lookInst = 2
        /\ req[c].promise = "rejected"
        /\ req[c].error = NotRegisteredError("draw", "A")

\* C11: when the image of a _setImage request fails to load, the dispatch
\* promise of the request is rejected with an image-decode error and the
\* handler is not invoked; the request does not stay pending.
C11_ImageDecodeFailureRejects ==
    \A c \in CallIds :
        req[c].phase = "loadfailed"
        => /\ req[c].promise = "rejected"
           /\ req[c].error # NoError
           /\ req[c].invoked = 0

\* C12: setImage with a file path and no format argument encodes the image in
\* the format of the path's extension: a .jpg or .jpeg path as image/jpeg.
C12_FormatInferredFromPath ==
    \A c \in CallIds :
        (IsSetImage(c) /\ host[c].image.kind = "string"
            /\ host[c].format = "undefined" /\ wire[c].state # "none"
            /\ Extension(host[c].image.path) \in {"jpg", "jpeg"})
        => wire[c].str[1] = Hdr("image/jpeg")

\* The mime type a format value stands for: image/jpeg for 'jpeg' and
\* 'jpg', image/png for every other value
ExpectedMime(f) == IF f \in {"jpeg", "jpg"} THEN "image/jpeg" ELSE "image/png"

\* C13: for every format value, the encoding on the native side and the
\* export of the canvas in the web-view both produce image/jpeg exactly when
\* the value is 'jpeg' or 'jpg', and image/png otherwise.
C13_SameFormatSelectionOnBothSides ==
    /\ codec.encoded # NoStr => codec.encoded[1] = Hdr(ExpectedMime(codec.format))
    /\ codec.exported # NoStr => codec.exported[1] = Hdr(ExpectedMime(codec.format))

\* C14: decoding a string that has no comma fails with a malformed-image-data
\* error: no absent payload is handed to fromBase64, and no image results.
C14_NoCommaStringIsMalformed ==
    (codec.decodeOf # "none" /\ CommaPositions(codec.decodeStr) = {})
    => /\ codec.decoded = "MalformedImageData"
       /\ ~codec.absent

\* The format the encoder chooses for a format value
ChosenFormat(f) == IF f \in {"jpeg", "jpg"} THEN "jpeg" ELSE "png"

\* C15: the encoded string of an image is 'data:image/(png|jpeg);base64,'
\* followed by the payload that toBase64String gives for the chosen format,
\* with exactly one comma; the payload that decoding extracts from it is
\* that payload, and decoding gives the image back.
C15_CodecRoundTrip ==
    LET payload == toBase64String(codec.img, ChosenFormat(codec.format)) IN
    /\ codec.encoded # NoStr
          => /\ codec.encoded = << Hdr(ExpectedMime(codec.format)), Comma >> \o payload
             /\ Cardinality(CommaPositions(codec.encoded)) = 1
             /\ SplitAt1(codec.encoded) = payload
    /\ codec.decodeOf = "encoded"
          => /\ codec.decodeStr = codec.encoded
             /\ codec.payload = payload
             /\ ~codec.absent
             /\ codec.decoded = codec.img

\* A green image was encoded as jpeg for the format value 'jpg' and decoded
\* back to itself
C15_Witness ==
    /\ codec.format = "jpg" /\ codec.img = "green"
    /\ codec.decodeOf = "encoded"
    /\ codec.encoded[1] = Hdr("image/jpeg")
    /\ codec.decoded = "green"

\* The value a returned value r is to resolve to: undefined for undefined and
\* null, r itself for every other value
ExpectedNormal(r) == IF r \in {"undefined", "null"} THEN "undefined" ELSE r

\* The value the then-callback of request c was called with
ResolvedValue(c) ==
    IF req[c].entry = "_setImage" THEN req[c].value.prim ELSE req[c].value.data

\* C17: a returned undefined or null resolves to undefined, a returned
\* promise to the value it resolves with, and every other returned value,
\* 0, false and '' included, to itself.
C17_ReturnValueNormalization ==
    \A c \in CallIds :
        (req[c].invoked = 1 /\ req[c].promise = "resolved")
        => /\ req[c].ret = "value" => ResolvedValue(c) = ExpectedNormal(req[c].retVal)
           /\ req[c].ret = "promise" => ResolvedValue(c) = req[c].retVal

\* C16: the handler of a setImage call is applied to the canvas, the context,
\* the decoded image and then every extra argument of the call, in the order
\* given, none dropped and none flattened.
C16_ExtraArgumentsDelivered ==
    \A c \in CallIds :
        (IsSetImage(c) /\ req[c].invoked = 1)
        => /\ req[c].invImage = fromFile(host[c].image.path)
           /\ req[c].invArgs = [i \in 1..Len(host[c].args) |-> Scalar(host[c].args[i])]

\* Request c of _setImage has not got past the loading of its image
AwaitingImage(r) == r.entry = "_setImage" /\ r.phase \in {"loading", "loadfailed"}

\* C18: in _setImage nothing happens before the image has loaded: while the
\* image is loading no surface or handler has been looked up, no handler has
\* been invoked on any canvas and the promise is pending; the lookups and
\* the invocation happen in the load event, against the instance table as
\* it is then.
C18_HandlerAfterImageLoad ==
    [][\A c \in CallIds :
          /\ AwaitingImage(req'[c])
                => /\ req'[c].invoked = 0 /\ req'[c].lookInst = 0
                   /\ req'[c].promise = "pending" /\ req'[c].invCanvas = "none"
          /\ (req'[c].entry = "_setImage" /\ req'[c].invoked # req[c].invoked)
                => /\ req[c].phase = "loading"
                   /\ req'[c].invoked = 1
                   /\ req'[c].lookInst = instanceMap[wire[c].canvasId]
                   /\ req'[c].invImage = LoadedImage(wire[c].str)
          /\ (req'[c].entry = "_setImage" /\ req'[c].promise = "rejected"
                  /\ req[c].promise = "pending")
                => req[c].phase = "loading"]_vars

\* The handler of a _setImage request was invoked with the loaded image
C18_Witness ==
    \E c \in CallIds :
        /\ req[c].entry = "_setImage" /\ req[c].invoked = 1
        /\ req[c].phase = "settled" /\ req[c].promise = "resolved"
        /\ req[c].invImage = "red" /\ canvasPx[req[c].invCanvas] = "red"

\* C19: _createImage exports the canvas only once the handler's result is
\* there: while the handler's promise is pending nothing has been exported,
\* and the export happens in the step in which the promise resolves, of what
\* the canvas shows at that moment.
C19_ExportAfterHandlerResult ==
    [][\A c \in CallIds :
          /\ (req'[c].entry = "_createImage" /\ req'[c].phase = "handler")
                => req'[c].exported = NoStr /\ req'[c].promise = "pending"
          /\ (req'[c].entry = "_createImage" /\ req'[c].exported # req[c].exported)
                => /\ req[c].exported = NoStr
                   /\ req'[c].ret = "promise" => req[c].phase = "handler"
                   /\ req'[c].promise = "resolved"
                   /\ req'[c].exported =
                          toDataURL(canvasPx'[req'[c].expCanvas], MimeOf(wire[c].format))]_vars

\* A handler returned a promise, another handler painted the same canvas
\* meanwhile, and the image exported when the promise resolved shows the
\* later painting
C19_Witness ==
    \E c \in CallIds :
        /\ req[c].entry = "_createImage" /\ req[c].ret = "promise"
        /\ req[c].promise = "resolved" /\ req[c].expCanvas = req[c].invCanvas
        /\ req[c].exported # NoStr
        /\ req[c].exported[Len(req[c].exported)].px # PaintOf(req[c].invFn)

\* Request c waits for the promise of its handler, and the instance whose
\* handler it invoked has been replaced in the instance table
Superseded(c) ==
    /\ req[c].phase = "handler"
    /\ req[c].invInst # instanceMap[wire[c].canvasId]

\* C20: constructing another instance for a surface identity does not cancel
\* or fail a request that waits for the promise of a handler of the old
\* instance: the request is left as it is, and resolves with the value of
\* the promise when the promise resolves; lookups made after the
\* construction use the new instance.
C20_SupersededRequestCompletes ==
    [][\A c \in CallIds :
          /\ (req[c].phase = "handler" /\ instances' # instances)
                => req'[c] = req[c] /\ wire'[c] = wire[c] /\ host'[c] = host[c]
          /\ (Superseded(c) /\ req'[c] # req[c] /\ req'[c].hError = NoError)
                => /\ req'[c].promise = "resolved"
                   /\ req'[c].error = NoError
                   /\ req'[c].invoked = 1
                   /\ ResolvedValue(c)' = req'[c].retVal
          /\ (LookupStep(c) /\ LatestInstance(wire[c].canvasId) # 0)
                => req'[c].lookInst = LatestInstance(wire[c].canvasId)]_vars

\* A createImage call invoked a handler of the first instance of surface "A",
\* the second instance was constructed while the handler's promise was
\* pending (the export was made from its canvas), and the call resolved with
\* the value of the promise
C20_Witness ==
    \E c \in CallIds :
        /\ IsCreateImage(c) /\ req[c].ret = "promise"
        /\ req[c].invInst = 1 /\ instanceMap["A"] = 2 /\ wire[c].canvasId = "A"
        /\ req[c].invCanvas = "a1" /\ req[c].expCanvas = "a2"
        /\ req[c].promise = "resolved" /\ req[c].retVal = "{data:7}"
        /\ host[c].state = "resolved" /\ host[c].result.data = "{data:7}"

\* The transport call of invocation c is issued in this step
Issued(c) == wire'[c].state = "request" /\ wire[c].state # "request"

\* The entry point in the web-view of an operation of the native side
EntryPointOf(op) ==
    IF op = "setImage" THEN "NSCanvasInterface._setImage"
    ELSE "NSCanvasInterface._createImage"

\* Invocation c is made in this step
Invoked(c) == host[c].op = "none" /\ host'[c].op # "none"

\* C21: an invocation of setImage or createImage issues at most one
\* transport call, exactly one when its arguments are valid: the call is
\* issued by the invocation itself, to the entry point of the operation and
\* with the surface identity of the proxy, and never again afterwards,
\* whatever the transport or the web-view answers.
C21_OneTransportCallPerInvocation ==
    [][\A c \in CallIds :
          /\ Issued(c)
                => /\ Invoked(c) /\ wire[c].state = "none"
                   /\ wire'[c].fn = EntryPointOf(host'[c].op)
                   /\ wire'[c].canvasId = host'[c].canvasId
                   /\ host'[c].state = "pending"
          /\ Invoked(c)
                => (Issued(c) <=>
                      ~(host'[c].op = "setImage" /\ host'[c].image \in InvalidImageArgs))
          /\ wire[c].state # "none"
                => /\ wire'[c].state # "none"
                   /\ wire'[c].fn = wire[c].fn
                   /\ wire'[c].canvasId = wire[c].canvasId
          /\ host[c].state = "rejected"
                => wire'[c] = wire[c]]_vars

\* The one transport call of a createImage invocation of the proxy of
\* surface "B" was answered with a rejection, that of a later invocation
\* failed in the transport, and neither was issued again
C21_Witness ==
    \E c, d \in CallIds :
        /\ c # d
        /\ IsCreateImage(c) /\ host[c].canvasId = "B" /\ wire[c].canvasId = "B"
        /\ wire[c].fn = "NSCanvasInterface._createImage"
        /\ host[c].state = "rejected" /\ wire[c].state = "done"
        /\ host[c].error = req[c].error
        /\ host[d].state = "rejected" /\ wire[d].state = "done"
        /\ host[d].error = TransportFailure

\* C22: the image of a _createImage response is exported from the canvas
\* that was passed to the handler of the request, also when another instance
\* for the same surface identity, with another canvas, was constructed while
\* the handler's promise was pending.
C22_ExportFromHandlersCanvas ==
    \A c \in CallIds :
        (req[c].entry = "_createImage" /\ req[c].exported # NoStr)
        => /\ req[c].invoked = 1
           /\ req[c].expCanvas = req[c].invCanvas

\* Request c has been dispatched to an entry point of the web-view
Dispatched(c) == req[c].entry # "none"

\* The surface or the handler of request c was not registered
LookupFailed(c) ==
    /\ req[c].promise = "rejected" /\ req[c].invoked = 0
    /\ req[c].error \in {NoInstanceError(wire[c].canvasId),
                         NotRegisteredError(wire[c].fname, wire[c].canvasId)}

\* The handler of request c threw, or its promise rejected
HandlerFailed(c) == req[c].invoked = 1 /\ req[c].hError # NoError

\* Request c has resolved after one invocation of its handler
ResolvedOnce(c) ==
    /\ req[c].promise = "resolved" /\ req[c].invoked = 1
    /\ req[c].phase = "settled" /\ req[c].error = NoError

\* C23: a handler is invoked at most once per request, and a dispatch
\* promise that has resolved stays as it is; a dispatched request whose
\* surface and handler are registered, whose image loads and whose handler
\* gives a value or a promise that resolves ends resolved, after exactly one
\* invocation of the handler.
C23_InvokedOnceResolvedOnce ==
    /\ [](\A c \in CallIds : req[c].invoked <= 1)
    /\ [][\A c \in CallIds :
            /\ req[c].invoked = 1 => req'[c].invoked = 1
            /\ req[c].promise # "pending"
                  => /\ req'[c].promise = req[c].promise
                     /\ req'[c].value = req[c].value
                     /\ req'[c].error = req[c].error]_vars
    /\ \A c \in CallIds :
          Dispatched(c) ~> \/ ResolvedOnce(c)
                           \/ LookupFailed(c)
                           \/ req[c].phase = "loadfailed"
                           \/ HandlerFailed(c)

\* A _setImage request and a _createImage request have both resolved, the
\* handler of each invoked once, one returning a value and one a promise
C23_Witness ==
    \E c, d \in CallIds :
        /\ req[c].entry = "_setImage" /\ ResolvedOnce(c) /\ req[c].ret = "value"
        /\ req[d].entry = "_createImage" /\ ResolvedOnce(d) /\ req[d].ret = "promise"

\* C24: a request carrying a surface identity invokes only a handler taken,
\* under the request's name, from the handler map of an instance of that
\* identity, passes it the canvas of that instance, and (for _createImage)
\* exports a canvas of that identity; a canvas is painted only in a step
\* that invokes a handler for a request of the canvas's identity.
C24_RoutingIsolation ==
    /\ [](\A c \in CallIds :
            /\ req[c].invoked = 1
                  => /\ req[c].invInst \in 1..Len(instances)
                     /\ IdOf(instances[req[c].invInst].canvas) = wire[c].canvasId
                     /\ req[c].invFn = instances[req[c].invInst].handlers[wire[c].fname]
                     /\ req[c].invCanvas = instances[req[c].invInst].canvas
            /\ req[c].expCanvas # "none"
                  => IdOf(req[c].expCanvas) = wire[c].canvasId)
    /\ [][\A el \in Elements :
            canvasPx'[el] # canvasPx[el]
            => \E c \in CallIds :
                  /\ req'[c].invoked # req[c].invoked
                  /\ req'[c].invCanvas = el
                  /\ wire[c].canvasId = IdOf(el)]_vars

\* Surfaces "A" and "B" both register "paint", with different handlers: the
\* request for "A" invoked the handler of "A" on the canvas of "A" and
\* exported it, the request for "B" that of "B" on the canvas of "B"
C24_Witness ==
    \E c, d \in CallIds :
        /\ wire[c].canvasId = "A" /\ wire[c].fname = "paint"
        /\ wire[d].canvasId = "B" /\ wire[d].fname = "paint"
        /\ req[c].invFn = "f" /\ req[c].invCanvas = "a1" /\ req[c].expCanvas = "a1"
        /\ req[d].invFn = "g" /\ req[d].invCanvas = "b1" /\ req[d].expCanvas = "b1"
        /\ canvasPx["a1"] = "red" /\ canvasPx["b1"] = "green"
====
